---- MODULE Spec2Model ----
(***************************************************************************)
(* Budget application: the relational store (user_profiles, budgets,       *)
(* budget_tabs, expenses) with its foreign keys, uniqueness constraint and *)
(* row-level policies, and the request handlers of the Access API.  Every  *)
(* `await` of a store call in a handler is one atomic step; the steps of   *)
(* concurrent requests interleave freely.                                  *)
(***************************************************************************)
EXTENDS Integers, FiniteSets, Sequences, TLC

\* ------------------------------------------------------------------ bounds
MaxBudgets == 2
MaxTabs == 2
MaxExpenses == 1
MaxRequests == 2

Users == {"u1", "u2"}
Procs == {"r1", "r2"}
Precedes(q, p) == q = "r1" /\ p = "r2"
Null == "null"
Anon == "anon"
Undefined == <<"undefined">>   \* a body field that was not sent
Empty == [x \in {} |-> Null]    \* a table without rows

\* gen_random_uuid(): the n-th id issued for a table, never issued again
BudgetId(n) == "b" \o ToString(n)
TabId(n) == "t" \o ToString(n)
ExpenseId(n) == "e" \o ToString(n)

BudgetIds == {BudgetId(n) : n \in 1..MaxBudgets}
TabIds == {TabId(n) : n \in 1..MaxTabs}

\* Request bodies.  A field of a JSON body is a number, a string that is not
\* numeric, or not sent.  Amounts are counted in thousandths so that the
\* rounding of DECIMAL(10, 2) is computed: 1000 is 1.00, 4 is 0.004.
Num(n) == [kind |-> "number", value |-> n]
NotNumeric == [kind |-> "string", value |-> 0]
Unset == [kind |-> "undefined", value |-> 0]
NaN == [kind |-> "NaN", value |-> 0]

\* parseFloat(v): the number, or NaN
parseFloat(v) == IF v.kind = "number" THEN v ELSE NaN

isNaN(v) == v.kind # "number"

\* JavaScript truthiness of a body field: undefined and 0 are falsy
Truthy(v) == v.kind = "string" \/ (v.kind = "number" /\ v.value # 0)

\* v || 0
OrZero(v) == IF Truthy(v) THEN v ELSE Num(0)

\* DECIMAL(10, 2) / NUMERIC(10, 2): rounded to hundredths, half away from zero
Round2(n) == IF n >= 0 THEN ((n + 5) \div 10) * 10 ELSE 0 - (((0 - n) + 5) \div 10) * 10

\* amount_allocated of a body: not sent, negative, 500.00, not a number
TabAmounts == {Unset, Num(0 - 1000), Num(500000), NotNumeric}

\* amount of a body: not sent, 0, negative, 0.004, 120.00, not a number
ExpenseAmounts == {Unset, Num(0), Num(0 - 1000), Num(4), Num(120000), NotNumeric}

\* Names are character sequences so that trim() is computed.
TabNames == {<<"F">>, <<" ", "F">>, <<"R">>, <<" ">>}
BudgetNames == {<<"B", " ">>, <<" ">>}

USD == <<"U", "S", "D">>
EUR == <<"E", "U", "R">>

\* currency_code of a body: not sent, empty, well-formed, malformed
CurrencyCodes == {Undefined, <<>>, USD, EUR, <<"u", "s">>,
                  <<"U", "S", "D", "X">>, <<"1", "2", "A">>}

VARIABLES
  auth_users,      \* identities known to the identity provider
  user_profiles,   \* id -> [budget_id, currency_code]
  budgets,         \* id -> [user_id, name]
  budget_tabs,     \* id -> [budget_id, name, position]
  expenses,        \* id -> [budget_id, tab_id, user_id]
  seq,             \* [budgets, budget_tabs, expenses]: ids issued so far
  rls,             \* row-level policies in force
  support_requests, \* sequence of [user_id], in order of insertion
  supabaseClient,  \* session held by the module-level singleton client
  req,             \* per request in flight: method, arguments, locals, pc
  res              \* the response sent by the step just taken, if any

vars == <<auth_users, user_profiles, budgets, budget_tabs, expenses, seq,
          rls, support_requests, supabaseClient, req, res>>

store == <<user_profiles, budgets, budget_tabs, expenses, seq>>

\* ------------------------------------------------------------ pure helpers
Restrict(f, S) == [x \in S |-> f[x]]

Extend(f, k, v) == [x \in DOMAIN f \cup {k} |-> IF x = k THEN v ELSE f[x]]

RECURSIVE TrimStart(_)
TrimStart(s) == IF s # <<>> /\ Head(s) = " " THEN TrimStart(Tail(s)) ELSE s

RECURSIVE TrimEnd(_)
TrimEnd(s) ==
  IF s # <<>> /\ s[Len(s)] = " " THEN TrimEnd(SubSeq(s, 1, Len(s) - 1)) ELSE s

\* String.prototype.trim
trim(s) == TrimEnd(TrimStart(s))

Max(S) == CHOOSE x \in S : \A y \in S : y <= x

\* --------------------------------------------------- row-level policies
\* "Users can view/update/insert own profile": auth.uid() = id
ProfilePolicy(uid, u) == rls => uid = u

\* user_profiles has no policy FOR DELETE: while the policies are in force a
\* delete selects no row of it
ProfileDeletePolicy(uid, u) == ~rls

\* "Users can ... own budgets": EXISTS user_profiles row with
\* id = budgets.user_id AND id = auth.uid()
BudgetPolicy(uid, row) ==
  rls => (row.user_id \in DOMAIN user_profiles /\ row.user_id = uid)

\* "Users can ... tabs for own budgets": EXISTS budgets JOIN user_profiles
\* with budgets.id = budget_tabs.budget_id AND user_profiles.id = auth.uid()
TabPolicy(uid, row) ==
  rls => \E b \in DOMAIN budgets :
           /\ b = row.budget_id
           /\ budgets[b].user_id \in DOMAIN user_profiles
           /\ budgets[b].user_id = uid

\* "Users can ... own expenses": auth.uid() = user_id
ExpensePolicy(uid, row) == rls => uid = row.user_id

\* ------------------------------------------------ constraints of the schema
\* budgets.user_id REFERENCES user_profiles(id)
BudgetForeignKeys(row) == row.user_id \in DOMAIN user_profiles

\* a string field that is sent and not empty (truthy in JavaScript)
Sent(s) == s # Undefined /\ s # <<>>

\* [A-Z]
UpperCase == {"A", "B", "C", "D", "E", "F", "G", "H", "I", "J", "K", "L", "M",
              "N", "O", "P", "Q", "R", "S", "T", "U", "V", "W", "X", "Y", "Z"}

\* /^[A-Z]{3}$/.test(s) and, in the schema, s ~ '^[A-Z]{3}$'
IsCurrencyCode(s) == Len(s) = 3 /\ \A i \in 1..Len(s) : s[i] \in UpperCase

\* budgets: CHECK (currency_code ~ '^[A-Z]{3}$')
BudgetCheck(row) == IsCurrencyCode(row.currency_code)

\* budget_tabs: CHECK (amount_allocated >= 0)
TabCheck(row) == row.amount_allocated >= 0

\* expenses: CHECK (amount > 0)
ExpenseCheck(row) == row.amount > 0

\* budget_tabs.budget_id REFERENCES budgets(id)
TabForeignKeys(row) == row.budget_id \in DOMAIN budgets

\* budget_tabs without its unique constraint
TabNameAny(self, row) == TRUE

\* CONSTRAINT budget_tabs_budget_name_unique UNIQUE(budget_id, name),
\* checked against every row but the one written (self)
TabNameUnique(self, row) ==
  \A t \in DOMAIN budget_tabs \ {self} :
    ~(budget_tabs[t].budget_id = row.budget_id /\ budget_tabs[t].name = row.name)

\* expenses without its foreign keys
ExpenseUnreferenced(row) == TRUE

\* expenses.budget_id / tab_id / user_id REFERENCES ...
ExpenseForeignKeys(row) ==
  /\ row.budget_id \in DOMAIN budgets
  /\ row.tab_id \in DOMAIN budget_tabs
  /\ row.user_id \in DOMAIN user_profiles

\* user_profiles without user_profiles_budget_id_fkey
ProfileUnreferenced(row) == TRUE

\* user_profiles_budget_id_fkey: budget_id REFERENCES budgets(id)
ProfileForeignKeys(row) == row.budget_id = Null \/ row.budget_id \in DOMAIN budgets

\* budgets.user_id ... ON DELETE CASCADE
CascadedBudgets(delUsers) ==
  {b \in DOMAIN budgets : budgets[b].user_id \in delUsers}

\* budget_tabs.budget_id without ON DELETE CASCADE
UncascadedTabs(delBudgets) == {}

\* budget_tabs.budget_id ... ON DELETE CASCADE
CascadedTabs(delBudgets) ==
  {t \in DOMAIN budget_tabs : budget_tabs[t].budget_id \in delBudgets}

\* expenses.budget_id, tab_id, user_id ... ON DELETE CASCADE
CascadedExpenses(delUsers, delBudgets, delTabs) ==
  {e \in DOMAIN expenses : \/ expenses[e].user_id \in delUsers
                           \/ expenses[e].budget_id \in delBudgets
                           \/ expenses[e].tab_id \in delTabs}

\* user_profiles.budget_id ... ON DELETE SET NULL
ClearedProfiles(profiles, delBudgets) ==
  [u \in DOMAIN profiles |->
     IF profiles[u].budget_id \in delBudgets
       THEN [profiles[u] EXCEPT !.budget_id = Null]
       ELSE profiles[u]]

\* support_requests.user_id ... ON DELETE SET NULL
ClearedRequests(requests, delUsers) ==
  [i \in DOMAIN requests |->
     IF requests[i].user_id \in delUsers
       THEN [requests[i] EXCEPT !.user_id = Null]
       ELSE requests[i]]

\* One DELETE statement: the rows named and every row that references them,
\* removed (or set null) in the same atomic step.
DeleteRows(delUsers, delBudgets, delTabs) ==
  LET DB == delBudgets \cup CascadedBudgets(delUsers)
      DT == delTabs \cup CascadedTabs(DB)
      DE == CascadedExpenses(delUsers, DB, DT)
  IN /\ user_profiles' =
          ClearedProfiles(Restrict(user_profiles, DOMAIN user_profiles \ delUsers), DB)
     /\ budgets' = Restrict(budgets, DOMAIN budgets \ DB)
     /\ budget_tabs' = Restrict(budget_tabs, DOMAIN budget_tabs \ DT)
     /\ expenses' = Restrict(expenses, DOMAIN expenses \ DE)
     /\ support_requests' = ClearedRequests(support_requests, delUsers)
     /\ seq' = seq

\* ------------------------------------------------------ requests, responses
Idle == [api |-> "none", method |-> "none", pc |-> "idle", user |-> Null,
         id |-> Null, tabId |-> Null, name |-> Undefined,
         amount |-> Unset, currency_code |-> Undefined,
         profile |-> Null, budget |-> Null, tabPosition |-> 0]

NoResponse == [proc |-> Null, api |-> "none", method |-> "none", user |-> Null,
               id |-> Null, tabId |-> Null, name |-> Undefined,
               amount |-> Unset, currency_code |-> Undefined,
               status |-> 0, row |-> Null, rows |-> {}, budget |-> Null]

\* a request is served by the first slot that is free
Free(p) == req[p].pc = "idle" /\ \A q \in Procs : req[q].pc = "idle" => ~Precedes(q, p)

At(p, api, pc) == req[p].api = api /\ req[p].pc = pc

\* req: the request as the handler sees it once getAuthenticatedUser has
\* verified the bearer token of u
Request(api, m, u, id, tabId) ==
  [Idle EXCEPT !.api = api, !.method = m, !.user = u, !.id = id, !.tabId = tabId]

\* the handler of request r goes on to its next store call
Continue(p, r, pc) ==
  /\ req' = [req EXCEPT ![p] = [r EXCEPT !.pc = pc]]
  /\ res' = NoResponse

Goto(p, pc) == Continue(p, req[p], pc)

\* res.status(status).json({.., budget}): the request is over
AnswerBudget(p, r, status, row, rows, budget) ==
  /\ req' = [req EXCEPT ![p] = Idle]
  /\ res' = [proc |-> p, api |-> r.api, method |-> r.method,
             user |-> r.user, id |-> r.id, tabId |-> r.tabId,
             name |-> r.name, amount |-> r.amount,
             currency_code |-> r.currency_code,
             status |-> status, row |-> row, rows |-> rows, budget |-> budget]

\* res.status(status).json(...): the request is over
Answer(p, r, status, row, rows) == AnswerBudget(p, r, status, row, rows, Null)

Reply(p, status, row, rows) == Answer(p, req[p], status, row, rows)

Respond(p, status) == Reply(p, status, Null, {})

InFlight(api, method) ==
  Cardinality({q \in Procs : req[q].api = api /\ req[q].method = method})

Init ==
  /\ auth_users = Users
  /\ user_profiles = [u \in Users |-> [budget_id |-> Null, currency_code |-> USD]]
  /\ budgets = Empty
  /\ budget_tabs = Empty
  /\ expenses = Empty
  /\ seq = [budgets |-> 0, budget_tabs |-> 0, expenses |-> 0]
  /\ rls = TRUE
  /\ support_requests = <<>>
  /\ supabaseClient = Anon
  /\ req = [p \in Procs |-> Idle]
  /\ res = NoResponse

\* a token is taken at its word
tokenBearer(u) == u

\* getAuthenticatedUser(req): the user of the bearer token when the identity
\* provider verifies it, else null (no token, or a token that is not valid)
getAuthenticatedUser(u) == IF u \in auth_users THEN u ELSE Null

\* ---------------------------------------------- /api/budgets (GET, POST)
\* getAuthenticatedUser, then
\* await supabase.auth.setSession({access_token: token, ...}) on the singleton.
\* The call is taken to do what the handler calls it for: afterwards the
\* singleton queries as the user of the token (its result is not looked at).
\* Without a verified token the handler answers 401 first.
BudgetsSetSession(p, u, m, currency_code) ==
  /\ Free(p)
  /\ m = "POST" => seq.budgets + InFlight("budgets", "POST") < MaxBudgets
  /\ LET r == [Request("budgets", m, u, Null, Null)
                 EXCEPT !.currency_code = currency_code]
     IN IF getAuthenticatedUser(u) = Null
          THEN /\ Answer(p, r, 401, Null, {})
               /\ supabaseClient' = supabaseClient
          ELSE /\ supabaseClient' = u
               /\ Continue(p, r, "profile")
  /\ UNCHANGED <<auth_users, store, rls, support_requests>>

\* select id from user_profiles where id = user.id; then method dispatch and
\* the validation of the POST body
BudgetsProfile(p) ==
  /\ At(p, "budgets", "profile")
  /\ LET u == req[p].user
         found == u \in DOMAIN user_profiles /\ ProfilePolicy(supabaseClient, u)
     IN IF ~found THEN Respond(p, 404)
        ELSE IF req[p].method = "GET" THEN Goto(p, "select")
        ELSE \E name \in BudgetNames :
               IF trim(name) = <<>>
                 THEN Answer(p, [req[p] EXCEPT !.name = name], 400, Null, {})
               ELSE IF /\ Sent(req[p].currency_code)
                       /\ ~IsCurrencyCode(req[p].currency_code)
                 THEN Answer(p, [req[p] EXCEPT !.name = trim(name)], 400, Null, {})
                 ELSE Continue(p, [req[p] EXCEPT !.name = trim(name)], "insert")
  /\ UNCHANGED <<auth_users, store, rls, support_requests, supabaseClient>>

\* select * from budgets (no filter but the row-level policy)
BudgetsSelect(p) ==
  /\ At(p, "budgets", "select")
  /\ Reply(p, 200, Null, {b \in DOMAIN budgets : BudgetPolicy(supabaseClient, budgets[b])})
  /\ UNCHANGED <<auth_users, store, rls, support_requests, supabaseClient>>

\* insert into budgets (user_id, name, ...) ... select().single()
BudgetsInsert(p) ==
  /\ At(p, "budgets", "insert")
  /\ LET row == [user_id |-> req[p].user, name |-> req[p].name,
                 currency_code |-> IF Sent(req[p].currency_code)
                                     THEN req[p].currency_code ELSE USD]
         n == seq.budgets + 1
     IN IF /\ BudgetPolicy(supabaseClient, row)
           /\ BudgetForeignKeys(row)
           /\ BudgetCheck(row)
          THEN /\ budgets' = Extend(budgets, BudgetId(n), row)
               /\ seq' = [seq EXCEPT !.budgets = n]
               /\ Continue(p, [req[p] EXCEPT !.budget = BudgetId(n)], "currentProfile")
          ELSE /\ Respond(p, 500)
               /\ UNCHANGED <<budgets, seq>>
  /\ UNCHANGED <<auth_users, user_profiles, budget_tabs, expenses, rls, support_requests, supabaseClient>>

\* a handler that rejects the request after its insert
BudgetsRejectLate(p) ==
  /\ At(p, "budgets", "currentProfile")
  /\ Respond(p, 400)
  /\ UNCHANGED <<auth_users, store, rls, support_requests, supabaseClient>>

\* select budget_id from user_profiles where id = user.id
BudgetsCurrentProfile(p) ==
  /\ At(p, "budgets", "currentProfile")
  /\ LET u == req[p].user
         found == u \in DOMAIN user_profiles /\ ProfilePolicy(supabaseClient, u)
         budget_id == IF found THEN user_profiles[u].budget_id ELSE Null
     IN IF budget_id = Null
          THEN Goto(p, "updateProfile")
          ELSE Reply(p, 201, req[p].budget, {})
  /\ UNCHANGED <<auth_users, store, rls, support_requests, supabaseClient>>

\* update user_profiles set budget_id = .. where id = auth.uid(): the row of
\* the session's user instead of the row of the user named in the request
UpdateSessionProfile(uid, userId, budget_id) ==
  LET row == [budget_id |-> budget_id]
  IN IF uid \in DOMAIN user_profiles /\ ProfileForeignKeys(row)
       THEN [user_profiles EXCEPT ![uid].budget_id = budget_id]
       ELSE user_profiles

\* update user_profiles set budget_id = .. where id = userId, under identity
\* uid: the table after the statement (unchanged when no row is selected or a
\* constraint fails)
UpdateProfile(uid, userId, budget_id) ==
  LET row == [budget_id |-> budget_id]
  IN IF userId \in DOMAIN user_profiles /\ ProfilePolicy(uid, userId)
        /\ ProfileForeignKeys(row)
       THEN [user_profiles EXCEPT ![userId].budget_id = budget_id]
       ELSE user_profiles

\* update user_profiles set budget_id = budget.id where id = user.id;
\* an error is logged and the request still answers 201
BudgetsUpdateProfile(p) ==
  /\ At(p, "budgets", "updateProfile")
  /\ user_profiles' = UpdateProfile(supabaseClient, req[p].user, req[p].budget)
  /\ Reply(p, 201, req[p].budget, {})
  /\ UNCHANGED <<auth_users, budgets, budget_tabs, expenses, seq, rls, support_requests, supabaseClient>>

\* ------------------------------------------ /api/budgets/[id] (DELETE)
\* These handlers query through getAuthenticatedSupabaseClient(token): a
\* client of their own whose auth.uid() is the caller.

\* the ownership check without its comparison of user_id
budgetVisible(uid, budgetId, userId) ==
  /\ budgetId \in DOMAIN budgets
  /\ BudgetPolicy(uid, budgets[budgetId])

\* verifyBudgetOwnership(budgetId, userId) evaluated under identity uid
verifyBudgetOwnership(uid, budgetId, userId) ==
  /\ budgetId \in DOMAIN budgets
  /\ BudgetPolicy(uid, budgets[budgetId])
  /\ budgets[budgetId].user_id = userId

\* getAuthenticatedUser, then verifyBudgetOwnership, then the method dispatch
\* and the validation of the PUT body
BudgetVerify(p, u, m, id, name, currency_code) ==
  /\ Free(p)
  /\ LET r == Request("budget", m, u, id, Null)
     IN IF getAuthenticatedUser(u) = Null THEN Answer(p, r, 401, Null, {})
        ELSE IF ~verifyBudgetOwnership(u, id, u) THEN Answer(p, r, 404, Null, {})
        ELSE IF m = "GET" THEN Continue(p, r, "select")
        ELSE IF m = "DELETE" THEN Continue(p, r, "profile")
        ELSE LET body == [r EXCEPT !.name = name, !.currency_code = currency_code]
                 updates == [body EXCEPT !.name = IF name = Undefined
                                                   THEN Undefined ELSE trim(name)]
             IN IF name # Undefined /\ trim(name) = <<>>
                  THEN Answer(p, body, 400, Null, {})
                ELSE IF /\ currency_code # Undefined
                        /\ ~IsCurrencyCode(currency_code)
                  THEN Answer(p, updates, 400, Null, {})
                ELSE IF name = Undefined /\ currency_code = Undefined
                  THEN Answer(p, updates, 400, Null, {})
                  ELSE Continue(p, updates, "update")
  /\ UNCHANGED <<auth_users, store, rls, support_requests, supabaseClient>>

RECURSIVE Sum(_, _)
\* reduce((sum, x) => sum + f[x], 0) over the rows S
Sum(f, S) ==
  IF S = {} THEN 0
  ELSE LET x == CHOOSE y \in S : TRUE IN f[x] + Sum(f, S \ {x})

\* tabsWithSpending: each tab with allocated, spent, left and percentage
\* (spent / allocated * 100, here in whole percents)
tabsWithSpending(tabs) ==
  [t \in tabs |->
     LET allocated == budget_tabs[t].amount_allocated
         spent == 0
         left == allocated - spent
     IN [amount_allocated |-> allocated,
         amount_spent |-> spent,
         amount_left |-> left,
         spent_percentage |-> IF allocated > 0 THEN (spent * 100) \div allocated ELSE 0]]

\* totals that leave the tabs out
totalsOfNone(withSpending) == [allocated |-> 0, spent |-> 0, left |-> 0]

\* totals: { allocated, spent, left }
totals(withSpending) ==
  LET totalAllocated ==
        Sum([t \in DOMAIN withSpending |-> withSpending[t].amount_allocated],
            DOMAIN withSpending)
      totalSpent ==
        Sum([t \in DOMAIN withSpending |-> withSpending[t].amount_spent],
            DOMAIN withSpending)
  IN [allocated |-> totalAllocated, spent |-> totalSpent,
      left |-> totalAllocated - totalSpent]

\* select * from budgets where id = id .single()
BudgetSelect(p) ==
  /\ At(p, "budget", "select")
  /\ IF req[p].id \in DOMAIN budgets /\ BudgetPolicy(req[p].user, budgets[req[p].id])
       THEN Goto(p, "selectTabs")
       ELSE Respond(p, 500)
  /\ UNCHANGED <<auth_users, store, rls, support_requests, supabaseClient>>

\* select * from budget_tabs where budget_id = id order by position; then the
\* response with the tabs and the totals
BudgetSelectTabs(p) ==
  /\ At(p, "budget", "selectTabs")
  /\ LET tabs == {t \in DOMAIN budget_tabs :
                   /\ TabPolicy(req[p].user, budget_tabs[t])
                   /\ budget_tabs[t].budget_id = req[p].id}
         withSpending == tabsWithSpending(tabs)
     IN AnswerBudget(p, req[p], 200, req[p].id, {},
                     [tabs |-> withSpending, totals |-> totals(withSpending)])
  /\ UNCHANGED <<auth_users, store, rls, support_requests, supabaseClient>>

\* update budgets set name = .., currency_code = .. where id = id
\* ... select().single()
BudgetUpdate(p) ==
  /\ At(p, "budget", "update")
  /\ LET id == req[p].id
         old == budgets[id]
         row == [old EXCEPT
                   !.name = IF req[p].name = Undefined THEN old.name ELSE req[p].name,
                   !.currency_code = IF req[p].currency_code = Undefined
                                       THEN old.currency_code
                                       ELSE req[p].currency_code]
     IN IF /\ id \in DOMAIN budgets
           /\ BudgetPolicy(req[p].user, budgets[id])
           /\ BudgetPolicy(req[p].user, row)
           /\ BudgetCheck(row)
          THEN /\ budgets' = [budgets EXCEPT ![id] = row]
               /\ Reply(p, 200, id, {})
          ELSE /\ budgets' = budgets
               /\ Respond(p, 500)
  /\ UNCHANGED <<auth_users, user_profiles, budget_tabs, expenses, seq, rls, support_requests, supabaseClient>>

\* select budget_id from user_profiles where id = user.id
BudgetProfile(p) ==
  /\ At(p, "budget", "profile")
  /\ LET u == req[p].user
         found == u \in DOMAIN user_profiles /\ ProfilePolicy(u, u)
         budget_id == IF found THEN user_profiles[u].budget_id ELSE Null
     IN Continue(p, [req[p] EXCEPT !.profile = budget_id], "delete")
  /\ UNCHANGED <<auth_users, store, rls, support_requests, supabaseClient>>

\* delete from budgets where id = id; then, when the profile read before
\* named this budget, go on to clear it
BudgetDelete(p) ==
  /\ At(p, "budget", "delete")
  /\ LET id == req[p].id
         hit == {b \in DOMAIN budgets : b = id /\ BudgetPolicy(req[p].user, budgets[b])}
     IN DeleteRows({}, hit, {})
  /\ IF req[p].profile = req[p].id
       THEN Goto(p, "clearProfile")
       ELSE Respond(p, 200)
  /\ UNCHANGED <<auth_users, rls, supabaseClient>>

\* update user_profiles set budget_id = null where id = user.id
BudgetClearProfile(p) ==
  /\ At(p, "budget", "clearProfile")
  /\ user_profiles' = UpdateProfile(req[p].user, req[p].user, Null)
  /\ Respond(p, 200)
  /\ UNCHANGED <<auth_users, budgets, budget_tabs, expenses, seq, rls, support_requests, supabaseClient>>

\* -------------------------------------- /api/budgets/[id]/tabs (POST)
\* This handler and the next query through getSupabaseClient(): the
\* singleton, whose auth.uid() is whatever session it holds.

\* the validation of the amount without its comparison with 0
allocatedNaN(allocated) == isNaN(allocated)

\* isNaN(allocated) || allocated < 0
allocatedInvalid(allocated) == isNaN(allocated) \/ allocated.value < 0

\* getAuthenticatedUser, verifyBudgetOwnership, then the validation of the
\* POST body
TabsVerify(p, u, m, id, amount_allocated) ==
  /\ Free(p)
  /\ m = "POST" => seq.budget_tabs + InFlight("tabs", "POST") < MaxTabs
  /\ LET r == [Request("tabs", m, u, id, Null) EXCEPT !.amount = amount_allocated]
         allocated == parseFloat(OrZero(amount_allocated))
     IN IF getAuthenticatedUser(u) = Null THEN Answer(p, r, 401, Null, {})
        ELSE IF ~verifyBudgetOwnership(supabaseClient, id, u)
          THEN Answer(p, r, 404, Null, {})
        ELSE IF m = "GET" THEN Continue(p, r, "select")
        ELSE \E name \in TabNames :
               IF trim(name) = <<>>
                 THEN Answer(p, [r EXCEPT !.name = name], 400, Null, {})
               ELSE IF allocatedInvalid(allocated)
                 THEN Answer(p, [r EXCEPT !.name = trim(name)], 400, Null, {})
                 ELSE Continue(p, [r EXCEPT !.name = trim(name)], "position")
  /\ UNCHANGED <<auth_users, store, rls, support_requests, supabaseClient>>

\* rows of budget_tabs the identity uid may select
VisibleTabs(uid) == {t \in DOMAIN budget_tabs : TabPolicy(uid, budget_tabs[t])}

\* select * from budget_tabs where budget_id = id order by position
TabsSelect(p) ==
  /\ At(p, "tabs", "select")
  /\ Reply(p, 200, Null,
           {t \in VisibleTabs(supabaseClient) : budget_tabs[t].budget_id = req[p].id})
  /\ UNCHANGED <<auth_users, store, rls, support_requests, supabaseClient>>

\* select position ... order by position desc limit 1; (position || 0) + 1
NextPosition(uid, budgetId) ==
  LET existingTabs == {t \in VisibleTabs(uid) : budget_tabs[t].budget_id = budgetId}
  IN IF existingTabs # {}
       THEN Max({budget_tabs[t].position : t \in existingTabs}) + 1
       ELSE 0

TabsPosition(p) ==
  /\ At(p, "tabs", "position")
  /\ Continue(p, [req[p] EXCEPT !.tabPosition = NextPosition(supabaseClient, req[p].id)],
              "duplicate")
  /\ UNCHANGED <<auth_users, store, rls, support_requests, supabaseClient>>

\* select id from budget_tabs where budget_id = .. and name = .. [and id <> self]
\* .single(): data only when exactly one row matches
existingTab(uid, budgetId, name, self) ==
  LET rows == {t \in VisibleTabs(uid) \ {self} :
                 budget_tabs[t].budget_id = budgetId /\ budget_tabs[t].name = name}
  IN Cardinality(rows) = 1

\* a duplicate check that starts over when the name is taken
TabsDuplicateRetry(p) ==
  /\ At(p, "tabs", "duplicate")
  /\ IF existingTab(supabaseClient, req[p].id, req[p].name, Null)
       THEN Goto(p, "position")
       ELSE Goto(p, "insert")
  /\ UNCHANGED <<auth_users, store, rls, support_requests, supabaseClient>>

TabsDuplicate(p) ==
  /\ At(p, "tabs", "duplicate")
  /\ IF existingTab(supabaseClient, req[p].id, req[p].name, Null)
       THEN Respond(p, 409)
       ELSE Goto(p, "insert")
  /\ UNCHANGED <<auth_users, store, rls, support_requests, supabaseClient>>

\* the checks the store makes on a row written to budget_tabs under identity
\* uid: policy, foreign key, unique (budget_id, name), amount_allocated >= 0
TabWritable(uid, self, row) ==
  /\ TabPolicy(uid, row)
  /\ TabForeignKeys(row)
  /\ TabNameUnique(self, row)
  /\ TabCheck(row)

\* insert into budget_tabs ... select().single()
TabsInsert(p) ==
  /\ At(p, "tabs", "insert")
  /\ LET row == [budget_id |-> req[p].id, name |-> req[p].name,
                 amount_allocated |-> Round2(parseFloat(OrZero(req[p].amount)).value),
                 position |-> req[p].tabPosition]
         n == seq.budget_tabs + 1
     IN IF TabWritable(supabaseClient, Null, row)
          THEN /\ budget_tabs' = Extend(budget_tabs, TabId(n), row)
               /\ seq' = [seq EXCEPT !.budget_tabs = n]
               /\ Reply(p, 201, TabId(n), {})
          ELSE /\ Respond(p, 500)
               /\ UNCHANGED <<budget_tabs, seq>>
  /\ UNCHANGED <<auth_users, user_profiles, budgets, expenses, rls, support_requests, supabaseClient>>

\* ------------------------- /api/budgets/[id]/tabs/[tabId] (PUT, DELETE)
\* getAuthenticatedUser, then verifyTabOwnership, first query: the tab and
\* its budget_id
TabVerifyTab(p, u, m, id, tabId, amount_allocated) ==
  /\ Free(p)
  /\ LET r == [Request("tab", m, u, id, tabId) EXCEPT !.amount = amount_allocated]
     IN IF getAuthenticatedUser(u) = Null THEN Answer(p, r, 401, Null, {})
        ELSE IF /\ tabId \in VisibleTabs(supabaseClient)
                /\ budget_tabs[tabId].budget_id = id
          THEN Continue(p, r, "verifyBudget")
          ELSE Answer(p, r, 404, Null, {})
  /\ UNCHANGED <<auth_users, store, rls, support_requests, supabaseClient>>

\* verifyTabOwnership, second query: the budget and its user_id; then the
\* method dispatch and the validation of the PUT body
TabVerifyBudget(p) ==
  /\ At(p, "tab", "verifyBudget")
  /\ IF ~verifyBudgetOwnership(supabaseClient, req[p].id, req[p].user)
       THEN Respond(p, 404)
       ELSE IF req[p].method = "DELETE" THEN Goto(p, "delete")
       ELSE \E name \in TabNames :
              IF trim(name) = <<>>
                THEN Answer(p, [req[p] EXCEPT !.name = name], 400, Null, {})
              ELSE IF /\ req[p].amount # Unset
                      /\ \/ isNaN(parseFloat(req[p].amount))
                         \/ parseFloat(req[p].amount).value < 0
                THEN Answer(p, [req[p] EXCEPT !.name = trim(name)], 400, Null, {})
                ELSE Continue(p, [req[p] EXCEPT !.name = trim(name)], "duplicate")
  /\ UNCHANGED <<auth_users, store, rls, support_requests, supabaseClient>>

TabDuplicate(p) ==
  /\ At(p, "tab", "duplicate")
  /\ IF existingTab(supabaseClient, req[p].id, req[p].name, req[p].tabId)
       THEN Respond(p, 409)
       ELSE Goto(p, "update")
  /\ UNCHANGED <<auth_users, store, rls, support_requests, supabaseClient>>

\* update budget_tabs set name = .., amount_allocated = .. where id = tabId
\* ... select().single()
TabUpdate(p) ==
  /\ At(p, "tab", "update")
  /\ LET t == req[p].tabId
         row == [budget_tabs[t] EXCEPT
                   !.name = req[p].name,
                   !.amount_allocated =
                     IF req[p].amount = Unset THEN @
                     ELSE Round2(parseFloat(req[p].amount).value)]
     IN IF t \in VisibleTabs(supabaseClient) /\ TabWritable(supabaseClient, t, row)
          THEN /\ budget_tabs' = [budget_tabs EXCEPT ![t] = row]
               /\ Reply(p, 200, t, {})
          ELSE /\ budget_tabs' = budget_tabs
               /\ Respond(p, 500)
  /\ UNCHANGED <<auth_users, user_profiles, budgets, expenses, seq, rls, support_requests, supabaseClient>>

\* delete from budget_tabs where id = tabId
TabDelete(p) ==
  /\ At(p, "tab", "delete")
  /\ DeleteRows({}, {}, {req[p].tabId} \cap VisibleTabs(supabaseClient))
  /\ Respond(p, 200)
  /\ UNCHANGED <<auth_users, rls, supabaseClient>>

\* ------------------------------------ /api/budgets/[id]/expenses (POST)
\* getAuthenticatedUser, verifyBudgetOwnership, then the POST body with its
\* tab_id
ExpensesVerify(p, u, m, id, amount) ==
  /\ Free(p)
  /\ m = "POST" => seq.expenses + InFlight("expenses", "POST") < MaxExpenses
  /\ LET r == [Request("expenses", m, u, id, Null) EXCEPT !.amount = amount]
     IN IF getAuthenticatedUser(u) = Null THEN Answer(p, r, 401, Null, {})
        ELSE IF ~verifyBudgetOwnership(u, id, u) THEN Answer(p, r, 404, Null, {})
        ELSE IF m = "GET" THEN Continue(p, r, "select")
        ELSE \E tab_id \in TabIds :
               IF \/ ~Truthy(amount)
                  \/ isNaN(parseFloat(amount))
                  \/ parseFloat(amount).value <= 0
                 THEN Answer(p, [r EXCEPT !.tabId = tab_id], 400, Null, {})
                 ELSE Continue(p, [r EXCEPT !.tabId = tab_id], "tab")
  /\ UNCHANGED <<auth_users, store, rls, support_requests, supabaseClient>>

\* select * from expenses where budget_id = budgetId order by expense_date
ExpensesSelect(p) ==
  /\ At(p, "expenses", "select")
  /\ Reply(p, 200, Null,
           {e \in DOMAIN expenses : /\ ExpensePolicy(req[p].user, expenses[e])
                                    /\ expenses[e].budget_id = req[p].id})
  /\ UNCHANGED <<auth_users, store, rls, support_requests, supabaseClient>>

\* the tab lookup without its budget_id filter
TabOfAnyBudget(uid, tab_id, budgetId) == tab_id \in VisibleTabs(uid)

\* select id, budget_id from budget_tabs where id = tab_id and
\* budget_id = budgetId .single()
TabOfBudget(uid, tab_id, budgetId) ==
  /\ tab_id \in VisibleTabs(uid)
  /\ budget_tabs[tab_id].budget_id = budgetId

\* the handler without its tab lookup
ExpensesTabSkipped(p) ==
  /\ At(p, "expenses", "tab")
  /\ Goto(p, "insert")
  /\ UNCHANGED <<auth_users, store, rls, support_requests, supabaseClient>>

ExpensesTab(p) ==
  /\ At(p, "expenses", "tab")
  /\ IF TabOfBudget(req[p].user, req[p].tabId, req[p].id)
       THEN Goto(p, "insert")
       ELSE Respond(p, 404)
  /\ UNCHANGED <<auth_users, store, rls, support_requests, supabaseClient>>

\* the insert as it would be on the singleton, user_id taken from its
\* session instead of the verified caller
ExpensesInsertSession(p) ==
  /\ At(p, "expenses", "insert")
  /\ LET row == [budget_id |-> req[p].id, tab_id |-> req[p].tabId,
                 user_id |-> supabaseClient,
                 amount |-> Round2(parseFloat(req[p].amount).value)]
         n == seq.expenses + 1
     IN IF /\ ExpensePolicy(supabaseClient, row)
           /\ ExpenseForeignKeys(row)
           /\ ExpenseCheck(row)
          THEN /\ expenses' = Extend(expenses, ExpenseId(n), row)
               /\ seq' = [seq EXCEPT !.expenses = n]
               /\ Reply(p, 201, ExpenseId(n), {})
          ELSE /\ Respond(p, 500)
               /\ UNCHANGED <<expenses, seq>>
  /\ UNCHANGED <<auth_users, user_profiles, budgets, budget_tabs, rls, support_requests, supabaseClient>>

\* insert into expenses ... select().single()
ExpensesInsert(p) ==
  /\ At(p, "expenses", "insert")
  /\ LET row == [budget_id |-> req[p].id, tab_id |-> req[p].tabId,
                 user_id |-> req[p].user,
                 amount |-> Round2(parseFloat(req[p].amount).value)]
         n == seq.expenses + 1
     IN IF /\ ExpensePolicy(req[p].user, row)
           /\ ExpenseForeignKeys(row)
           /\ ExpenseCheck(row)
          THEN /\ expenses' = Extend(expenses, ExpenseId(n), row)
               /\ seq' = [seq EXCEPT !.expenses = n]
               /\ Reply(p, 201, ExpenseId(n), {})
          ELSE /\ Respond(p, 500)
               /\ UNCHANGED <<expenses, seq>>
  /\ UNCHANGED <<auth_users, user_profiles, budgets, budget_tabs, rls, support_requests, supabaseClient>>

\* ----------------------------------------- /api/profile/delete (DELETE)
\* getAuthenticatedUser, then supabase.auth.admin.deleteUser(user.id) on a
\* client made with the anon key and the caller's token: the admin call
\* needs the service role key, fails, and its error is not looked at
AccountDeleteUser(p, u) ==
  /\ Free(p)
  /\ LET r == Request("account", "DELETE", u, Null, Null)
     IN IF getAuthenticatedUser(u) = Null THEN Answer(p, r, 401, Null, {})
        ELSE Continue(p, r, "deleteProfile")
  /\ UNCHANGED <<auth_users, store, rls, support_requests, supabaseClient>>

\* delete from user_profiles where id = user.id; an error is logged, and the
\* request is answered 200
AccountDeleteProfile(p) ==
  /\ At(p, "account", "deleteProfile")
  /\ LET u == req[p].user
     IN DeleteRows(IF u \in DOMAIN user_profiles /\ ProfileDeletePolicy(u, u)
                     THEN {u} ELSE {}, {}, {})
  /\ Respond(p, 200)
  /\ UNCHANGED <<auth_users, rls, supabaseClient>>

\* ------------------------------------------------ identity provider
\* The identity is deleted upstream: user_profiles.id REFERENCES auth.users
\* ON DELETE CASCADE, and its tokens stop verifying.
DeleteAuthUser(u) ==
  /\ u \in auth_users
  /\ auth_users' = auth_users \ {u}
  /\ DeleteRows({u} \cap DOMAIN user_profiles, {}, {})
  /\ res' = NoResponse
  /\ UNCHANGED <<rls, supabaseClient, req>>

\* ------------------------------------------------------ specification
BudgetsNext ==
  \/ \E p \in Procs, u \in Users, m \in {"GET", "POST"} :
       BudgetsSetSession(p, u, m, Undefined)
  \/ \E p \in Procs :
       \/ BudgetsProfile(p)
       \/ BudgetsSelect(p)
       \/ BudgetsInsert(p)
       \/ BudgetsCurrentProfile(p)
       \/ BudgetsUpdateProfile(p)

\* GET /api/budgets alone: requests that only move the singleton's session
SessionNext ==
  \/ \E p \in Procs, u \in Users : BudgetsSetSession(p, u, "GET", Undefined)
  \/ \E p \in Procs :
       \/ BudgetsProfile(p)
       \/ BudgetsSelect(p)

BudgetNext ==
  \/ \E p \in Procs, u \in Users, id \in BudgetIds : BudgetVerify(p, u, "DELETE", id, Undefined, Undefined)
  \/ \E p \in Procs :
       \/ BudgetProfile(p)
       \/ BudgetDelete(p)
       \/ BudgetClearProfile(p)

TabsNext ==
  \/ \E p \in Procs, u \in Users, id \in BudgetIds : TabsVerify(p, u, "POST", id, Unset)
  \/ \E p \in Procs :
       \/ TabsPosition(p)
       \/ TabsDuplicate(p)
       \/ TabsInsert(p)

TabPutNext ==
  \/ \E p \in Procs, u \in Users, id \in BudgetIds, tabId \in TabIds :
       TabVerifyTab(p, u, "PUT", id, tabId, Unset)
  \/ \E p \in Procs :
       \/ TabVerifyBudget(p)
       \/ TabDuplicate(p)
       \/ TabUpdate(p)

TabDeleteNext ==
  \/ \E p \in Procs, u \in Users, id \in BudgetIds, tabId \in TabIds :
       TabVerifyTab(p, u, "DELETE", id, tabId, Unset)
  \/ \E p \in Procs :
       \/ TabVerifyBudget(p)
       \/ TabDelete(p)

ExpensesNext ==
  \/ \E p \in Procs, u \in Users, id \in BudgetIds :
       ExpensesVerify(p, u, "POST", id, Num(1000))
  \/ \E p \in Procs :
       \/ ExpensesTab(p)
       \/ ExpensesInsert(p)

AuthNext == \E u \in Users : DeleteAuthUser(u)

\* GET /api/budgets/[id]
BudgetGetNext ==
  \/ \E p \in Procs, u \in Users, id \in BudgetIds : BudgetVerify(p, u, "GET", id, Undefined, Undefined)
  \/ \E p \in Procs :
       \/ BudgetSelect(p)
       \/ BudgetSelectTabs(p)

\* POST /api/budgets/[id]/tabs with an amount_allocated
TabsAmountNext ==
  \/ \E p \in Procs, u \in Users, id \in BudgetIds, amount_allocated \in TabAmounts :
       TabsVerify(p, u, "POST", id, amount_allocated)
  \/ \E p \in Procs :
       \/ TabsPosition(p)
       \/ TabsDuplicate(p)
       \/ TabsInsert(p)

\* the owner of the budgets creates and updates tabs and logs expenses, with
\* every kind of amount
AmountsNext ==
  \/ \E p \in Procs, id \in BudgetIds, amount_allocated \in TabAmounts :
       TabsVerify(p, "u1", "POST", id, amount_allocated)
  \/ \E p \in Procs, id \in BudgetIds, tabId \in TabIds,
         amount_allocated \in {Unset, Num(0 - 1000), Num(500000)} :
       TabVerifyTab(p, "u1", "PUT", id, tabId, amount_allocated)
  \/ \E p \in Procs, id \in BudgetIds,
         amount \in {Num(0), Num(0 - 1000), Num(4), Num(120000)} :
       ExpensesVerify(p, "u1", "POST", id, amount)
  \/ \E p \in Procs :
       \/ TabsPosition(p)
       \/ TabsDuplicate(p)
       \/ TabsInsert(p)
       \/ TabVerifyBudget(p)
       \/ TabDuplicate(p)
       \/ TabUpdate(p)
       \/ ExpensesTab(p)
       \/ ExpensesInsert(p)

\* POST /api/budgets/[id]/expenses with any amount
ExpensesAmountNext ==
  \/ \E p \in Procs, u \in Users, id \in BudgetIds, amount \in ExpenseAmounts :
       ExpensesVerify(p, u, "POST", id, amount)
  \/ \E p \in Procs :
       \/ ExpensesTab(p)
       \/ ExpensesInsert(p)

\* PUT /api/budgets/[id]
BudgetPutNext ==
  \/ \E p \in Procs, u \in Users, id \in BudgetIds,
         name \in BudgetNames \cup {Undefined}, currency_code \in CurrencyCodes :
       BudgetVerify(p, u, "PUT", id, name, currency_code)
  \/ \E p \in Procs : BudgetUpdate(p)

\* GET /api/budgets/[id]/tabs
TabsGetNext ==
  \/ \E p \in Procs, u \in Users, id \in BudgetIds : TabsVerify(p, u, "GET", id, Unset)
  \/ \E p \in Procs : TabsSelect(p)

\* GET /api/budgets/[id]/expenses
ExpensesGetNext ==
  \/ \E p \in Procs, u \in Users, id \in BudgetIds :
       ExpensesVerify(p, u, "GET", id, Unset)
  \/ \E p \in Procs : ExpensesSelect(p)

\* every operation on a budget and on what it holds, asked by u2
StrangerNext ==
  \/ \E p \in Procs, id \in BudgetIds, m \in {"GET", "PUT"} : BudgetVerify(p, "u2", m, id, Undefined, Undefined)
  \/ \E p \in Procs, id \in BudgetIds : TabsVerify(p, "u2", "GET", id, Unset)
  \/ \E p \in Procs, id \in BudgetIds : ExpensesVerify(p, "u2", "GET", id, Unset)
  \/ \E p \in Procs, id \in BudgetIds, tabId \in TabIds, m \in {"PUT", "DELETE"} :
       TabVerifyTab(p, "u2", m, id, tabId, Unset)
  \/ \E p \in Procs : TabVerifyBudget(p)

\* every endpoint, method and body, asked without a bearer token
AnonymousNext ==
  \/ \E p \in Procs, m \in {"GET", "POST"}, currency_code \in {Undefined, <<"u", "s">>} :
       BudgetsSetSession(p, Null, m, currency_code)
  \/ \E p \in Procs, id \in BudgetIds, m \in {"GET", "PUT", "DELETE"} :
       BudgetVerify(p, Null, m, id, Undefined, Undefined)
  \/ \E p \in Procs, id \in BudgetIds, m \in {"GET", "POST"},
         amount_allocated \in {Unset, Num(0 - 1000)} :
       TabsVerify(p, Null, m, id, amount_allocated)
  \/ \E p \in Procs, id \in BudgetIds, tabId \in TabIds, m \in {"PUT", "DELETE"},
         amount_allocated \in {Unset, Num(0 - 1000)} :
       TabVerifyTab(p, Null, m, id, tabId, amount_allocated)
  \/ \E p \in Procs, id \in BudgetIds, m \in {"GET", "POST"},
         amount \in {Unset, Num(0)} :
       ExpensesVerify(p, Null, m, id, amount)

\* POST /api/budgets with a currency_code
BudgetsCurrencyNext ==
  \/ \E p \in Procs, u \in Users, currency_code \in CurrencyCodes :
       BudgetsSetSession(p, u, "POST", currency_code)
  \/ \E p \in Procs :
       \/ BudgetsProfile(p)
       \/ BudgetsInsert(p)
       \/ BudgetsCurrentProfile(p)
       \/ BudgetsUpdateProfile(p)

\* requests that validation or the duplicate check may reject: budgets are
\* created, tabs are created and renamed; update budget and create expense
\* carry bodies that are rejected
RejectedNext ==
  \/ \E p \in Procs, u \in Users, currency_code \in {Undefined, <<"u", "s">>} :
       BudgetsSetSession(p, u, "POST", currency_code)
  \/ \E p \in Procs, u \in Users, id \in BudgetIds,
         name \in {Undefined, <<" ">>}, currency_code \in {Undefined, <<"u", "s">>} :
       BudgetVerify(p, u, "PUT", id, name, currency_code)
  \/ \E p \in Procs, u \in Users, id \in BudgetIds,
         amount_allocated \in {Unset, Num(0 - 1000)} :
       TabsVerify(p, u, "POST", id, amount_allocated)
  \/ \E p \in Procs, u \in Users, id \in BudgetIds, tabId \in TabIds,
         amount_allocated \in {Unset, Num(0 - 1000)} :
       TabVerifyTab(p, u, "PUT", id, tabId, amount_allocated)
  \/ \E p \in Procs, u \in Users, id \in BudgetIds :
       ExpensesVerify(p, u, "POST", id, Num(0))
  \/ \E p \in Procs :
       \/ BudgetsProfile(p)
       \/ BudgetsInsert(p)
       \/ BudgetsCurrentProfile(p)
       \/ BudgetsUpdateProfile(p)
       \/ TabsPosition(p)
       \/ TabsDuplicate(p)
       \/ TabsInsert(p)
       \/ TabVerifyBudget(p)
       \/ TabDuplicate(p)
       \/ TabUpdate(p)

\* DELETE /api/profile/delete
AccountNext ==
  \/ \E p \in Procs, u \in Users : AccountDeleteUser(p, u)
  \/ \E p \in Procs : AccountDeleteProfile(p)

\* ------------------------------------------- /api/profile/update (PUT)
\* currency_code CHECK (currency_code ~ '^[A-Z]{3}$')
ProfileCheck(row) == IsCurrencyCode(row.currency_code)

\* PUT /api/profile/update with body {currency_code}: 401 without a valid
\* token, 400 for a currency code that is not three capital letters and for
\* a body with no field to update
ProfileUpdateUser(p, u, currency_code) ==
  /\ Free(p)
  /\ LET r == [Request("profile", "PUT", u, Null, Null)
                 EXCEPT !.currency_code = currency_code]
     IN IF getAuthenticatedUser(u) = Null
          THEN Answer(p, r, 401, Null, {})
          ELSE IF currency_code # Undefined /\ Sent(currency_code)
                  /\ ~IsCurrencyCode(currency_code)
                 THEN Answer(p, r, 400, Null, {})
                 ELSE IF currency_code = Undefined
                        THEN Answer(p, r, 400, Null, {})
                        ELSE Continue(p, r, "update")
  /\ UNCHANGED <<auth_users, store, rls, support_requests, supabaseClient>>

\* update user_profiles set currency_code = currency_code || 'USD'
\* where id = user.id ... select().single(), with the caller's own client;
\* budget_id is not among the columns the handler writes
ProfileUpdate(p) ==
  /\ At(p, "profile", "update")
  /\ LET u == req[p].user
         currency_code == IF Sent(req[p].currency_code)
                            THEN req[p].currency_code ELSE USD
     IN IF u \in DOMAIN user_profiles /\ ProfilePolicy(u, u)
           /\ ProfileCheck([user_profiles[u] EXCEPT !.currency_code = currency_code])
          THEN /\ user_profiles' =
                    [user_profiles EXCEPT ![u].currency_code = currency_code]
               /\ Reply(p, 200, u, {})
          ELSE /\ user_profiles' = user_profiles
               /\ Respond(p, 500)
  /\ UNCHANGED <<auth_users, budgets, budget_tabs, expenses, seq, rls, support_requests, supabaseClient>>

ProfileCurrencies == {Undefined, <<>>, EUR, <<"u", "s">>}

ProfileNext ==
  \/ \E p \in Procs, u \in Users, c \in ProfileCurrencies : ProfileUpdateUser(p, u, c)
  \/ \E p \in Procs : ProfileUpdate(p)

\* PUT /api/budgets/[id] with a new name and currency
BudgetRenameNext ==
  \/ \E p \in Procs, u \in Users, id \in BudgetIds :
       BudgetVerify(p, u, "PUT", id, <<"C">>, EUR)
  \/ \E p \in Procs : BudgetUpdate(p)

\* ------------------------------------------------ /api/support/contact
\* "Anyone can create support requests": FOR INSERT WITH CHECK (true)
SupportRequestInsertPolicy(uid, row) == TRUE

\* "Users can view own support requests":
\* FOR SELECT USING (auth.uid() = user_id OR user_id IS NULL)
SupportRequestSelectPolicy(uid, row) ==
  rls => (uid = row.user_id \/ row.user_id = Null)

\* support_requests.user_id REFERENCES user_profiles(id)
SupportRequestForeignKeys(row) ==
  row.user_id = Null \/ row.user_id \in DOMAIN user_profiles

\* POST /api/support/contact with body {subject}: the caller is optional, a
\* token that does not verify makes an anonymous request; 400 for a blank
\* subject
SupportContact(p, u, subject) ==
  /\ Free(p)
  /\ Len(support_requests) + InFlight("support", "POST") < MaxRequests
  /\ LET user == IF u = Null THEN Null ELSE getAuthenticatedUser(u)
         r == [Request("support", "POST", user, Null, Null) EXCEPT !.name = subject]
     IN IF ~Sent(subject) \/ trim(subject) = <<>>
          THEN Answer(p, r, 400, Null, {})
          ELSE Continue(p, [r EXCEPT !.name = trim(subject)], "insert")
  /\ UNCHANGED <<auth_users, store, rls, support_requests, supabaseClient>>

\* insert into support_requests (user_id, ..) ... select().single(), with
\* the caller's client or the singleton; a database error is logged and the
\* request still answers 200
SupportInsert(p) ==
  /\ At(p, "support", "insert")
  /\ LET uid == IF req[p].user = Null THEN supabaseClient ELSE req[p].user
         row == [user_id |-> req[p].user]
     IN support_requests' =
          IF SupportRequestInsertPolicy(uid, row) /\ SupportRequestForeignKeys(row)
            THEN Append(support_requests, row)
            ELSE support_requests
  /\ Respond(p, 200)
  /\ UNCHANGED <<auth_users, store, rls, supabaseClient>>

Subjects == {<<"S">>, <<" ">>}

SupportNext ==
  \/ \E p \in Procs, u \in Users \cup {Null}, subject \in Subjects :
       SupportContact(p, u, subject)
  \/ \E p \in Procs : SupportInsert(p)

\* The whole application, from the empty store.
Next ==
  \/ BudgetsNext
  \/ BudgetNext
  \/ TabsNext
  \/ TabPutNext
  \/ TabDeleteNext
  \/ ExpensesNext
  \/ AuthNext

Spec == Init /\ [][Next]_vars

\* Budgets and profiles: create, list and delete budgets, delete identities.
SpecBudgets == Init /\ [][BudgetsNext \/ BudgetNext \/ AuthNext]_vars

\* A store the requests above have filled: u1 has created two budgets, the
\* first of which became the active one, u2 none; the singleton holds the
\* session of u1, whose request ran last.
InitFilled ==
  /\ auth_users = Users
  /\ budgets = [b \in {BudgetId(1), BudgetId(2)} |->
                 [user_id |-> "u1", name |-> <<"B">>, currency_code |-> USD]]
  /\ user_profiles = [u \in Users |->
       [budget_id |-> IF u = "u1" THEN BudgetId(1) ELSE Null, currency_code |-> USD]]
  /\ budget_tabs = Empty
  /\ expenses = Empty
  /\ seq = [budgets |-> 2, budget_tabs |-> 0, expenses |-> 0]
  /\ rls = TRUE
  /\ support_requests = <<>>
  /\ supabaseClient = "u1"
  /\ req = [p \in Procs |-> Idle]
  /\ res = NoResponse

\* Tabs of existing budgets: create and rename tabs while other requests move
\* the session of the singleton.
SpecTabs == InitFilled /\ [][SessionNext \/ TabsNext \/ TabPutNext]_vars

\* Cascades: tabs and expenses of existing budgets are created while budgets
\* are deleted; a row disappears only through the delete of its budget.
SpecCascade == InitFilled /\ [][TabsNext \/ ExpensesNext \/ BudgetNext]_vars

\* Integrity: tabs and expenses of existing budgets are created while tabs,
\* budgets and identities are deleted.
SpecIntegrity ==
  InitFilled /\ [][TabsNext \/ TabDeleteNext \/ ExpensesNext \/ BudgetNext \/ AuthNext]_vars

\* Expenses: expenses are created while tabs are created, renamed and deleted
\* and budgets are deleted.
SpecExpenses ==
  InitFilled /\ [][TabsNext \/ TabPutNext \/ TabDeleteNext \/ ExpensesNext
                     \/ BudgetNext]_vars

\* Ledger: tabs are created with amounts, expenses are logged against them,
\* and the budget is read with its totals.
SpecLedger == InitFilled /\ [][TabsAmountNext \/ ExpensesAmountNext \/ BudgetGetNext]_vars

\* Requests to budgets of somebody else: while the owner of the budgets
\* creates tabs and expenses and deletes budgets, and anybody asks the same,
\* the user who owns none of them addresses every other operation to them.
SpecScoped ==
  InitFilled /\ [][TabsNext \/ ExpensesNext \/ BudgetNext \/ StrangerNext]_vars

\* The privileged path: the same handlers over a store that does not apply
\* its row-level policies (a connection that bypasses them).
InitPrivileged ==
  /\ auth_users = Users
  /\ user_profiles = [u \in Users |-> [budget_id |-> Null, currency_code |-> USD]]
  /\ budgets = Empty
  /\ budget_tabs = Empty
  /\ expenses = Empty
  /\ seq = [budgets |-> 0, budget_tabs |-> 0, expenses |-> 0]
  /\ rls = FALSE
  /\ support_requests = <<>>
  /\ supabaseClient = Anon
  /\ req = [p \in Procs |-> Idle]
  /\ res = NoResponse

SpecPrivileged == InitPrivileged /\ [][BudgetsNext \/ BudgetNext]_vars

\* Requests without a valid token: tabs are created while identities are
\* deleted, whose tokens stop verifying, and while requests arrive that
\* carry no token at all.
SpecAnonymous == InitFilled /\ [][TabsNext \/ AuthNext \/ AnonymousNext]_vars

\* Rejections, from the empty store: requests with bodies that validation
\* rejects and names that are taken, among requests that succeed.
SpecRejected == Init /\ [][RejectedNext]_vars

\* Amounts: tabs are created and updated and expenses are logged with every
\* kind of amount.
SpecAmounts == InitFilled /\ [][AmountsNext]_vars

\* Currencies: budgets are created and updated with every kind of
\* currency_code.
SpecCurrency == Init /\ [][BudgetsCurrencyNext \/ BudgetPutNext]_vars

\* Tab deletes: tabs and expenses of existing budgets are created and tabs
\* are deleted while other requests move the session of the singleton.
SpecTabDelete ==
  InitFilled /\ [][SessionNext \/ TabsNext \/ TabDeleteNext \/ ExpensesNext]_vars

\* Accounts: tabs and expenses of existing budgets are created while users
\* delete their accounts.
SpecAccount == InitFilled /\ [][TabsNext \/ ExpensesNext \/ AccountNext]_vars

\* the next store call of the handler that serves the request at p returns
HandlerStep(p) ==
  \/ BudgetsProfile(p)
  \/ BudgetsSelect(p)
  \/ BudgetsInsert(p)
  \/ BudgetsCurrentProfile(p)
  \/ BudgetsUpdateProfile(p)
  \/ BudgetSelect(p)
  \/ BudgetSelectTabs(p)
  \/ BudgetUpdate(p)
  \/ BudgetProfile(p)
  \/ BudgetDelete(p)
  \/ BudgetClearProfile(p)
  \/ TabsSelect(p)
  \/ TabsPosition(p)
  \/ TabsDuplicate(p)
  \/ TabsInsert(p)
  \/ TabVerifyBudget(p)
  \/ TabDuplicate(p)
  \/ TabUpdate(p)
  \/ TabDelete(p)
  \/ ExpensesSelect(p)
  \/ ExpensesTab(p)
  \/ ExpensesInsert(p)

\* Scheduling: the store answers every call, so a handler that has a next
\* step takes it; requests arrive whenever a slot is free.
SpecFair ==
  /\ InitFilled
  /\ [][SessionNext \/ TabsNext \/ ExpensesNext \/ BudgetNext]_vars
  /\ \A p \in Procs : WF_vars(HandlerStep(p))

\* Budgets created and deleted while profiles are updated and accounts are
\* removed, from the empty store.
SpecProfiles == Init /\ [][BudgetsNext \/ BudgetNext \/ ProfileNext \/ AuthNext]_vars

\* Two owners: each user has one budget with one tab, the budget their
\* profile points to.
InitOwners ==
  /\ auth_users = Users
  /\ budgets = [b \in {BudgetId(1), BudgetId(2)} |->
                 [user_id |-> IF b = BudgetId(1) THEN "u1" ELSE "u2",
                  name |-> <<"B">>, currency_code |-> USD]]
  /\ user_profiles = [u \in Users |->
       [budget_id |-> IF u = "u1" THEN BudgetId(1) ELSE BudgetId(2),
        currency_code |-> USD]]
  /\ budget_tabs = [t \in {TabId(1), TabId(2)} |->
                     [budget_id |-> IF t = TabId(1) THEN BudgetId(1) ELSE BudgetId(2),
                      name |-> <<"F">>, amount_allocated |-> 0, position |-> 0]]
  /\ expenses = Empty
  /\ seq = [budgets |-> 2, budget_tabs |-> 2, expenses |-> 0]
  /\ rls = TRUE
  /\ support_requests = <<>>
  /\ supabaseClient = "u1"
  /\ req = [p \in Procs |-> Idle]
  /\ res = NoResponse

\* Ownership: both owners log expenses, in their own budget and in the
\* other's, while budgets are renamed and deleted, tabs are renamed and the
\* session of the singleton moves.
SpecOwners ==
  InitOwners /\ [][SessionNext \/ ExpensesNext \/ BudgetRenameNext \/ TabPutNext
                     \/ BudgetNext]_vars

\* Support: requests are sent to support by users and by anonymous callers
\* while users ask for their account to be deleted and identities are
\* removed.
SpecSupport == Init /\ [][SupportNext \/ AccountNext \/ AuthNext]_vars

\* ---------------------------------------------------------- properties
\* the step just taken answered a request to api with status
Answered(api, method, status) ==
  res.api = api /\ res.method = method /\ res.status = status

\* tabs of budgetId named name, other than self
TabsNamed(budgetId, name, self) ==
  {t \in DOMAIN budget_tabs \ {self} :
     budget_tabs[t].budget_id = budgetId /\ budget_tabs[t].name = name}

\* C1: GET /api/budgets called by U returns exactly the budgets whose user_id
\* is U: all of U's budgets and no budget of another user.
C1_ListOwnBudgets ==
  Answered("budgets", "GET", 200) =>
    res.rows = {b \in DOMAIN budgets : budgets[b].user_id = res.user}

\* C2: once DELETE /api/budgets/B has answered 200, no tab and no expense with
\* budget_id = B exists, whatever tabs and expenses B had before.
C2_DeleteBudgetCascades ==
  Answered("budget", "DELETE", 200) =>
    /\ \A t \in DOMAIN budget_tabs : budget_tabs[t].budget_id # res.id
    /\ \A e \in DOMAIN expenses : expenses[e].budget_id # res.id

\* The delete of b2 has answered 200, b1 is still there, and a tab and an
\* expense that were created are gone: rows disappear only with their budget
\* under SpecCascade, so they were b2's.
C2_Witness ==
  /\ Answered("budget", "DELETE", 200)
  /\ res.id = BudgetId(2)
  /\ DOMAIN budgets = {BudgetId(1)}
  /\ \E n \in 1..seq.budget_tabs : TabId(n) \notin DOMAIN budget_tabs
  /\ \E n \in 1..seq.expenses : ExpenseId(n) \notin DOMAIN expenses

\* C3: in every state, between the steps of interleaved requests too, every
\* budget references an existing profile, every tab an existing budget, every
\* expense an existing budget, tab and profile: a delete removes the dependent
\* rows in the same step.
C3_ReferentialIntegrity ==
  /\ \A b \in DOMAIN budgets : budgets[b].user_id \in DOMAIN user_profiles
  /\ \A t \in DOMAIN budget_tabs : budget_tabs[t].budget_id \in DOMAIN budgets
  /\ \A e \in DOMAIN expenses :
       /\ expenses[e].budget_id \in DOMAIN budgets
       /\ expenses[e].tab_id \in DOMAIN budget_tabs
       /\ expenses[e].user_id \in DOMAIN user_profiles

\* A create-expense request whose tab passed the lookup had that tab, its
\* budget or its user deleted under it, and its insert was refused.
C3_Witness ==
  /\ Answered("expenses", "POST", 500)
  /\ \/ res.tabId \notin DOMAIN budget_tabs
     \/ res.id \notin DOMAIN budgets
     \/ res.user \notin DOMAIN user_profiles

\* C4: in every state the tab of each expense belongs to the budget of the
\* expense.
C4_ExpenseTabInBudget ==
  \A e \in DOMAIN expenses :
    /\ expenses[e].tab_id \in DOMAIN budget_tabs
    /\ budget_tabs[expenses[e].tab_id].budget_id = expenses[e].budget_id

\* An expense exists while both budgets of its owner have tabs.
C4_Witness ==
  /\ expenses # Empty
  /\ \A b \in {BudgetId(1), BudgetId(2)} :
       \E t \in DOMAIN budget_tabs : budget_tabs[t].budget_id = b

\* C5: POST /api/budgets/B/expenses with a tab_id whose tab belongs to another
\* budget is answered 404 (validation error) and creates no expense, also when
\* the caller owns both budgets.
C5_ForeignTabRejected ==
  (/\ res.api = "expenses"
   /\ res.method = "POST"
   /\ res.tabId \in DOMAIN budget_tabs
   /\ budget_tabs[res.tabId].budget_id # res.id)
  => /\ res.status = 404
     /\ res.row = Null
     /\ \A e \in DOMAIN expenses :
          ~(expenses[e].tab_id = res.tabId /\ expenses[e].budget_id = res.id)

\* The caller owns budget B and the budget of the tab, and was refused.
C5_Witness ==
  /\ Answered("expenses", "POST", 404)
  /\ res.tabId \in DOMAIN budget_tabs
  /\ budget_tabs[res.tabId].budget_id # res.id
  /\ res.id \in DOMAIN budgets
  /\ budgets[res.id].user_id = res.user
  /\ budgets[budget_tabs[res.tabId].budget_id].user_id = res.user

\* C6: in every state no two tabs of the same budget have the same name, also
\* when two requests pass the duplicate-name lookup before either writes.
C6_TabNamesUnique ==
  \A t1, t2 \in DOMAIN budget_tabs :
    (/\ t1 # t2
     /\ budget_tabs[t1].budget_id = budget_tabs[t2].budget_id)
    => budget_tabs[t1].name # budget_tabs[t2].name

\* Two create-tab requests for one name in one budget passed the lookup; the
\* first has just written its tab, the second is about to insert.
C6_Witness ==
  /\ Answered("tabs", "POST", 201)
  /\ \E q \in Procs :
       /\ At(q, "tabs", "insert")
       /\ req[q].id = res.id
       /\ req[q].name = res.name

\* C7: POST /api/budgets/B/tabs with a (trimmed) name that a tab of B already
\* has is answered 409 and adds no tab; with a name that only a tab of another
\* budget of the caller has it succeeds.
C7_DuplicateNameConflict ==
  (res.api = "tabs" /\ res.method = "POST" /\ res.status # 400) =>
    /\ TabsNamed(res.id, res.name, res.row) # {} =>
         res.status = 409 /\ res.row = Null
    /\ (/\ TabsNamed(res.id, res.name, res.row) = {}
        /\ res.id \in DOMAIN budgets
        /\ budgets[res.id].user_id = res.user
        /\ \E t \in DOMAIN budget_tabs :
             /\ budget_tabs[t].name = res.name
             /\ budget_tabs[t].budget_id # res.id
             /\ budgets[budget_tabs[t].budget_id].user_id = res.user)
       => res.status = 201

\* C8: a create-tab or rename-tab request refused because of a duplicate
\* (budget_id, name) is answered 409, never 500, also when only the unique
\* constraint detects the duplicate at write time.
C8_DuplicateNever500 ==
  (/\ \/ res.api = "tabs" /\ res.method = "POST"
      \/ res.api = "tab" /\ res.method = "PUT"
   /\ res.status = 500
   /\ supabaseClient = res.user
   /\ res.id \in DOMAIN budgets
   /\ budgets[res.id].user_id = res.user)
  => TabsNamed(res.id, res.name, res.tabId) = {}

\* C9: for a user whose active budget is null, the create-budget request that
\* answers 201 sets the active budget to the budget created; the delete of the
\* active budget leaves it null.
C9_ActiveBudgetFollows ==
  [][\A p \in Procs :
       LET u == req[p].user
       IN u \in DOMAIN user_profiles =>
            /\ (BudgetsUpdateProfile(p) /\ user_profiles[u].budget_id = Null)
                 => user_profiles'[u].budget_id = req[p].budget
            /\ (BudgetDelete(p) /\ user_profiles[u].budget_id = req[p].id)
                 => user_profiles'[u].budget_id = Null
            /\ BudgetClearProfile(p) => user_profiles'[u].budget_id = Null]_vars

\* C10: in every state the active budget of each user is null or an existing
\* budget, also between the steps of a create-budget request interleaved with
\* the delete of the budget it created.
C10_ActiveBudgetExists ==
  \A u \in DOMAIN user_profiles :
    \/ user_profiles[u].budget_id = Null
    \/ user_profiles[u].budget_id \in DOMAIN budgets

\* A create-budget request answered 201 under its caller's session after the
\* budget it had inserted was deleted: the profile was not pointed at it.
C10_Witness ==
  /\ Answered("budgets", "POST", 201)
  /\ res.row \notin DOMAIN budgets
  /\ supabaseClient = res.user
  /\ res.user \in DOMAIN user_profiles
  /\ user_profiles[res.user].budget_id = Null

\* expenses of budget b
ExpensesOf(b) == {e \in DOMAIN expenses : expenses[e].budget_id = b}

\* tabs of budget b
TabsOf(b) == {t \in DOMAIN budget_tabs : budget_tabs[t].budget_id = b}

\* sum of amount over the expenses S
Spent(S) == Sum([e \in S |-> expenses[e].amount], S)

\* C11: GET /api/budgets/B reports totals.spent = the sum of amount over the
\* expenses of B, and for each tab amount_spent = the sum over the expenses of
\* that tab.
C11_SpentFromExpenses ==
  Answered("budget", "GET", 200) =>
    /\ res.budget.totals.spent = Spent(ExpensesOf(res.id))
    /\ \A t \in DOMAIN res.budget.tabs :
         res.budget.tabs[t].amount_spent =
           Spent({e \in ExpensesOf(res.id) : expenses[e].tab_id = t})

\* C12: in every GET /api/budgets/B response totals.allocated is the sum of
\* amount_allocated over the tabs of B, totals.left = allocated - spent, each
\* tab's amount_left = amount_allocated - amount_spent, and a tab allocated 0
\* has spent_percentage 0.
C12_TotalsArithmetic ==
  Answered("budget", "GET", 200) =>
    LET tabs == res.budget.tabs
        t3 == res.budget.totals
    IN /\ DOMAIN tabs = TabsOf(res.id)
       /\ \A t \in DOMAIN tabs :
            /\ tabs[t].amount_allocated = budget_tabs[t].amount_allocated
            /\ tabs[t].amount_left = tabs[t].amount_allocated - tabs[t].amount_spent
            /\ tabs[t].amount_allocated = 0 => tabs[t].spent_percentage = 0
       /\ t3.allocated =
            Sum([t \in TabsOf(res.id) |-> budget_tabs[t].amount_allocated], TabsOf(res.id))
       /\ t3.left = t3.allocated - t3.spent

\* A budget is read that has a tab allocated 0 and a tab allocated more.
C12_Witness ==
  /\ Answered("budget", "GET", 200)
  /\ \E t1, t2 \in DOMAIN res.budget.tabs :
       /\ res.budget.tabs[t1].amount_allocated = 0
       /\ res.budget.tabs[t2].amount_allocated > 0

\* the operations addressed to one budget
Scoped == {"budget", "tabs", "tab", "expenses"}

\* the caller of request r does not own the budget r names: the budget is
\* another user's, or there is no budget of that id
NotOwned(r) ==
  /\ r.api \in Scoped
  /\ r.user \in auth_users
  /\ ~(r.id \in DOMAIN budgets /\ budgets[r.id].user_id = r.user)

\* the response of a request that found nothing
NotFound == res.status = 404 /\ res.row = Null /\ res.rows = {} /\ res.budget = Null

\* C13: a request of an authenticated caller to a budget that is not the
\* caller's (another user's budget, or an id of no budget) is answered 404
\* with the same body in both cases, whatever the operation, and no step
\* of such a request changes a row.  The tab operations verify in two
\* queries: between them the request waits at "verifyBudget".
C13_NotOwnedIs404 ==
  [][\A p \in Procs :
       /\ (req[p].pc = "idle" /\ res'.proc = p /\ NotOwned(res'))
            => (NotFound' /\ store' = store)
       /\ (req[p].pc = "idle" /\ req'[p].pc # "idle" /\ NotOwned(req'[p]))
            => (req'[p].pc = "verifyBudget" /\ store' = store)
       /\ (req[p].pc = "verifyBudget" /\ req'[p] # req[p] /\ NotOwned(req[p]))
            => (res'.proc = p /\ NotFound' /\ store' = store)]_vars

\* u2 asked to update a tab of a budget of u1 and was answered 404 after the
\* second query
C13_Witness ==
  /\ Answered("tab", "PUT", 404)
  /\ res.user = "u2"
  /\ res.id \in DOMAIN budgets
  /\ budgets[res.id].user_id = "u1"
  /\ res.tabId \in DOMAIN budget_tabs
  /\ budget_tabs[res.tabId].budget_id = res.id

\* C14: without the row-level policies, list budgets still returns only
\* budgets of the caller.
C14_PrivilegedListOwn ==
  (~rls /\ Answered("budgets", "GET", 200)) =>
    \A b \in res.rows \cap DOMAIN budgets : budgets[b].user_id = res.user

\* a request arrives at p in this step
Arrives(p) == req[p].pc = "idle" /\ (req'[p].pc # "idle" \/ res'.proc = p)

\* the caller of the request that arrives at p
Caller(p) == IF res'.proc = p THEN res'.user ELSE req'[p].user

\* C15: a request that carries no valid bearer token (none, or the token of a
\* deleted identity) is answered 401 by the first step of its handler,
\* whatever the endpoint, the method, the budget id and the body, and that
\* step changes no row and no session.
C15_NoTokenIs401 ==
  [][\A p \in Procs :
       (Arrives(p) /\ Caller(p) \notin auth_users)
         => /\ res'.proc = p
            /\ res'.status = 401
            /\ store' = store
            /\ supabaseClient' = supabaseClient]_vars

\* a request without a token that names an existing budget and carries a
\* negative amount_allocated was answered 401
C15_Witness ==
  /\ Answered("tabs", "POST", 401)
  /\ res.user = Null
  /\ res.id \in DOMAIN budgets
  /\ res.amount = Num(0 - 1000)

\* where a request stands once it has written: after the insert of a budget
\* or the delete of one, with the profile still to be read or updated
AfterWrite == {"currentProfile", "updateProfile", "clearProfile"}

\* C16: a request answered 400 or 409 has changed no row of user_profiles,
\* budgets, budget_tabs or expenses: the step that answers changes none, and
\* no step of the request before it did, since a request that writes either
\* ends with that step or stands, from then on, where no 400 or 409 is
\* answered.
C16_RejectedChangesNothing ==
  [][\A p \in Procs :
       req'[p] # req[p] =>
         /\ (res'.proc = p /\ res'.status \in {400, 409})
              => (store' = store /\ req[p].pc \notin AfterWrite)
         /\ (store' # store /\ req'[p].pc # "idle") => req'[p].pc \in AfterWrite
         /\ req[p].pc \in AfterWrite => req'[p].pc \in AfterWrite \cup {"idle"}]_vars

\* a rename to a name another tab of the budget holds was answered 409
C16_Witness ==
  /\ Answered("tab", "PUT", 409)
  /\ TabsNamed(res.id, res.name, res.tabId) # {}

\* the body field v is a number below 0
Negative(v) == v.kind = "number" /\ v.value < 0

\* the request just answered got as far as the validation of its body
Validated == res.status \notin {0, 401, 404}

\* C17: create tab and update tab answer 400 to a negative amount_allocated,
\* create expense answers 400 to an amount that is 0 or negative, and every
\* tab in the store has amount_allocated >= 0, every expense amount > 0.
C17_AmountsInRange ==
  /\ (res.api \in {"tabs", "tab"} /\ res.method \in {"POST", "PUT"}
        /\ Validated /\ Negative(res.amount))
       => res.status = 400
  /\ (res.api = "expenses" /\ res.method = "POST" /\ Validated
        /\ (Negative(res.amount) \/ res.amount = Num(0)))
       => res.status = 400
  /\ \A t \in DOMAIN budget_tabs : budget_tabs[t].amount_allocated >= 0
  /\ \A e \in DOMAIN expenses : expenses[e].amount > 0

\* a tab that holds 500.00 was sent a negative amount_allocated under a name
\* that is valid, and the update was answered 400
C17_Witness ==
  /\ Answered("tab", "PUT", 400)
  /\ res.amount = Num(0 - 1000)
  /\ res.name = <<"F">>
  /\ res.tabId \in DOMAIN budget_tabs
  /\ budget_tabs[res.tabId].amount_allocated = 500000

\* C18: a tab created without a position has the largest position among the
\* tabs already in its budget, plus 1, and position 0 in a budget without
\* tabs.
C18_PositionAfterLast ==
  Answered("tabs", "POST", 201) =>
    LET others == {t \in DOMAIN budget_tabs \ {res.row} :
                     budget_tabs[t].budget_id = res.id}
    IN budget_tabs[res.row].position =
         IF others = {} THEN 0
         ELSE Max({budget_tabs[t].position : t \in others}) + 1

\* C19: create budget and update budget accept a currency_code that was sent
\* exactly when it is three letters A-Z: a request that succeeds carried
\* such a code, a request whose name is valid and that is answered 400
\* carried another, and every budget in the store has such a code.
C19_CurrencyIffThreeLetters ==
  /\ (res.api \in {"budgets", "budget"} /\ res.method \in {"POST", "PUT"}
        /\ res.currency_code # Undefined)
       => /\ res.status \in {200, 201} => IsCurrencyCode(res.currency_code)
          /\ (res.status = 400 /\ res.name = Undefined)
               => ~IsCurrencyCode(res.currency_code)
          /\ (res.status = 400 /\ res.name # Undefined /\ trim(res.name) # <<>>)
               => ~IsCurrencyCode(res.currency_code)
  /\ \A b \in DOMAIN budgets : IsCurrencyCode(budgets[b].currency_code)

\* C20: an update of tab T that gets past ownership and validation is
\* answered 409 and changes no tab when another tab of the budget holds the
\* name it carries, and otherwise succeeds, T's own current name included:
\* T is then stored under that name.
C20_RenameExcludesSelf ==
  [][(res'.api = "tab" /\ res'.method = "PUT" /\ res'.status \notin {0, 400, 401, 404})
       => IF \E t \in DOMAIN budget_tabs' \ {res'.tabId} :
               /\ budget_tabs'[t].budget_id = res'.id
               /\ budget_tabs'[t].name = res'.name
            THEN res'.status = 409 /\ budget_tabs' = budget_tabs
            ELSE /\ res'.status = 200
                 /\ budget_tabs'[res'.tabId].name = res'.name]_vars

\* C21: a delete of tab T that is answered 200 removes T and the expenses
\* whose tab_id is T, and changes nothing else: the other tabs, the
\* expenses of other tabs, the budgets and the profiles are as before.
C21_DeleteTabFrame ==
  [][(res'.api = "tab" /\ res'.method = "DELETE" /\ res'.status = 200)
       => /\ budget_tabs' = Restrict(budget_tabs, DOMAIN budget_tabs \ {res'.tabId})
          /\ expenses' = Restrict(expenses, {e \in DOMAIN expenses :
                                               expenses[e].tab_id # res'.tabId})
          /\ budgets' = budgets
          /\ user_profiles' = user_profiles]_vars

\* C22: once delete account has answered 200, the caller has no profile, no
\* budget, and no tab or expense of a budget of theirs is left.
C22_AccountDeleted ==
  Answered("account", "DELETE", 200) =>
    /\ res.user \notin DOMAIN user_profiles
    /\ \A b \in DOMAIN budgets : budgets[b].user_id # res.user
    /\ \A e \in DOMAIN expenses : expenses[e].user_id # res.user

\* C23: a request that has started is answered, whatever other requests do
\* meanwhile, and it is answered once: the step that ends it sends its
\* response, and no other step of it sends one.
C23_RequestCompletes ==
  /\ \A p \in Procs : (req[p].pc # "idle") ~> (req[p].pc = "idle")
  /\ [][\A p \in Procs :
          req[p].pc # "idle" =>
            /\ req'[p].pc = "idle" => (res'.proc = p /\ res'.status # 0)
            /\ (req'[p].pc # "idle" /\ req'[p] # req[p]) => res'.status = 0]_vars

\* a request was answered while the request of another user was in flight
C23_Witness ==
  /\ Answered("tabs", "POST", 201)
  /\ \E q \in Procs : req[q].pc # "idle" /\ req[q].user # res.user

\* C24: with the row-level policies in force, a create, update or delete of
\* a tab that the owner of the budget addresses to the budget (and to a tab
\* of it) is not answered 404.
C24_OwnerPassesVerify ==
  (/\ rls
   /\ res.api \in {"tabs", "tab"}
   /\ res.method \in {"POST", "PUT", "DELETE"}
   /\ res.user \in auth_users
   /\ res.id \in DOMAIN budgets
   /\ budgets[res.id].user_id = res.user
   /\ res.api = "tab" => /\ res.tabId \in DOMAIN budget_tabs
                         /\ budget_tabs[res.tabId].budget_id = res.id)
    => res.status # 404

\* C25: the store calls of a list-budgets or create-budget request run under
\* the identity of the caller of that request: while the request is in
\* flight the shared client holds its caller's session, and the budgets of
\* a list answered to a caller are that caller's.
C25_SessionIsCallers ==
  /\ \A p \in Procs : req[p].api = "budgets" => supabaseClient = req[p].user
  /\ Answered("budgets", "GET", 200) =>
       \A b \in res.rows \cap DOMAIN budgets : budgets[b].user_id = res.user

\* C26: no step of a delete-budget request for B changes an active budget
\* that references another budget.
C26_DeleteClearsOnlyOwn ==
  [][\A p \in Procs :
       (req[p].api = "budget" /\ req[p].method = "DELETE" /\ req'[p] # req[p])
         => \A u \in DOMAIN user_profiles :
              user_profiles[u].budget_id \notin {Null, req[p].id}
                => /\ u \in DOMAIN user_profiles'
                   /\ user_profiles'[u].budget_id = user_profiles[u].budget_id]_vars

\* C27: no step of a create-budget request changes an active budget that is
\* set.
C27_CreateKeepsActive ==
  [][\A p \in Procs :
       (req[p].api = "budgets" /\ req[p].method = "POST" /\ req'[p] # req[p])
         => \A u \in DOMAIN user_profiles :
              user_profiles[u].budget_id # Null
                => /\ u \in DOMAIN user_profiles'
                   /\ user_profiles'[u].budget_id = user_profiles[u].budget_id]_vars

\* C28: a profile's active budget, when it has one, is a budget of that same
\* user, whatever create-budget, delete-budget and profile-update requests
\* were served.
C28_ActiveBudgetIsOwn ==
  \A u \in DOMAIN user_profiles :
    user_profiles[u].budget_id # Null =>
      /\ user_profiles[u].budget_id \in DOMAIN budgets
      /\ budgets[user_profiles[u].budget_id].user_id = u

\* A profile update answered 200 for a user whose profile points to a budget
\* while another user owns a budget too.
C28_Witness ==
  /\ Answered("profile", "PUT", 200)
  /\ res.user \in DOMAIN user_profiles
  /\ user_profiles[res.user].budget_id # Null
  /\ user_profiles[res.user].currency_code = EUR
  /\ \E b \in DOMAIN budgets : budgets[b].user_id # res.user

\* C29: every expense carries the user_id of the budget it belongs to, and no
\* step changes the user_id of a budget, the budget_id of a tab, or the
\* budget_id, tab_id or user_id of an expense that exists before and after.
C29_ExpenseOwnerIsBudgetOwner ==
  /\ [](\A e \in DOMAIN expenses :
          /\ expenses[e].budget_id \in DOMAIN budgets
          /\ expenses[e].user_id = budgets[expenses[e].budget_id].user_id)
  /\ [][/\ \A b \in DOMAIN budgets \cap DOMAIN budgets' :
             budgets'[b].user_id = budgets[b].user_id
        /\ \A t \in DOMAIN budget_tabs \cap DOMAIN budget_tabs' :
             budget_tabs'[t].budget_id = budget_tabs[t].budget_id
        /\ \A e \in DOMAIN expenses \cap DOMAIN expenses' :
             /\ expenses'[e].budget_id = expenses[e].budget_id
             /\ expenses'[e].tab_id = expenses[e].tab_id
             /\ expenses'[e].user_id = expenses[e].user_id]_vars

\* The budget of an expense was renamed by its owner while the session of the
\* singleton was the other user's.
C29_Witness ==
  /\ Answered("budget", "PUT", 200)
  /\ supabaseClient # res.user
  /\ \E e \in DOMAIN expenses :
       /\ expenses[e].budget_id = res.id
       /\ expenses[e].user_id = res.user
       /\ budgets[res.id].name = <<"C">>

\* C30: a support request that has an owner can be selected by that owner
\* only, now and after any step, the deletion of the owner's profile
\* included: no other user and no anonymous caller passes its SELECT policy.
C30_OwnedRequestStaysPrivate ==
  [][\A i \in DOMAIN support_requests :
       support_requests[i].user_id # Null =>
         \A uid \in (Users \cup {Anon}) \ {support_requests[i].user_id} :
           /\ ~SupportRequestSelectPolicy(uid, support_requests[i])
           /\ ~SupportRequestSelectPolicy(uid, support_requests'[i])]_vars

====
